---- MODULE Spec2Model ----
(***************************************************************************)
(* Model of the invoice-filling program: the constrained random weekday    *)
(* date generator (invoiceDating.py), the expiration-date derivation, the  *)
(* date writer apply_invoice_and_expiration_dates and the control-number   *)
(* writer apply_control_numbers (controlNumbering.py).                     *)
(*                                                                         *)
(* Dates are day numbers counted from a Monday, so that Python's           *)
(* date.weekday() (Monday = 0 .. Sunday = 6) is the day number modulo 7.   *)
(* Sequences are 1-based: pool index i of the code is i + 1 here.          *)
(***************************************************************************)
EXTENDS Integers, Sequences, FiniteSets, TLC

\* ---------------------------------------------------------------- bounds
\* Last day number of the calendar the inputs are drawn from (0 = a Monday).
MaxDay == 7
\* Largest page count / date count requested.
MaxCount == 10
\* Largest max_repeats_per_date passed to the generator directly.
MaxCap == 3
\* Largest day offset passed to _add_days_adjust_weekday directly.
MaxOffset == 8
\* Largest min_jump / max_jump passed to apply_control_numbers.
MaxJump == 2
\* start_number of apply_control_numbers is drawn from 0 and from the
\* last MaxSlack + 1 values that fit in six digits (and the first that does not).
MaxSlack == 4
\* Largest total_pages passed to apply_control_numbers.
MaxControlPages == 3
\* The small max_pages value passed to apply_control_numbers besides the default.
SmallMaxPages == 2
\* Largest number of products passed to input_products_page.
MaxProducts == 19
\* Largest start_number passed to apply_invoice_numbers.
MaxInvoiceStart == 2
\* Largest total_pages passed to apply_invoice_and_expiration_dates directly.
MaxDatePages == 4
\* main: the max_pages default of the three apply_* functions (50 in the
\* code), scaled down so that a product list longer than the cap is reachable.
MainMaxPages == 2
\* main: the max_jump default of apply_control_numbers (11 in the code),
\* scaled down.
MainMaxJump == 2

\* ------------------------------------------------------ program constants
\* InvoiceDatesConfig.expiration_days
expiration_days == 30
\* InvoiceDatesConfig.expiration_row_offset
expiration_row_offset == 1
\* InvoiceDatesConfig.max_pages and the max_pages default of apply_control_numbers
default_max_pages == 50
\* max_repeats_per_date passed by apply_invoice_and_expiration_dates
apply_max_repeats == 3
\* _cell_to_col_row("E10"), _cell_to_col_row("E59"): column E = 5
number_col == 5
number_first_row == 10
number_second_row == 59
\* input_products_page defaults and its column offsets
first_page_start_row == 19
second_page_start_row == 68
start_col == 2
items_per_page == 9
row_step == 2
COL_DESC == 0
COL_QTY == 6
COL_UNIT == 7
COL_TOTAL == 9
\* the min_jump default of apply_control_numbers
default_min_jump == 1
\* ITEMS_PER_PAGE of main.py
ITEMS_PER_PAGE == 9
\* largest control number that fits in six digits
SixDigitMax == 999999
\* _cell_to_col_row("K12"), _cell_to_col_row("K61"): column K = 11, rows 12 and 61
invoice_col == 11
invoice_first_row == 12
invoice_second_row == 61
\* _cell_to_col_row("K6"), _cell_to_col_row("K55")
control_col == 11
control_first_row == 6
control_second_row == 55

VARIABLES
    op,                    \* the operation called: "none" until a call is made
    pc,                    \* position inside the operation
    exc,                   \* "" or the exception raised / propagating
    count,                 \* generator argument
    start_date,            \* argument
    end_date,              \* argument
    allowed_weekdays,      \* generator argument (sorted list of weekdays)
    max_repeats_per_date,  \* generator argument
    dates,                 \* generator local: the pool
    repeats,               \* generator local: repeat count per pool index
    extras,                \* generator local: occurrences still to distribute
    iterations,            \* number of iterations of the extras loop executed
    out,                   \* generator return value / invoice_dates / add_days result
    total_pages,           \* argument of the apply_* operations
    max_pages,             \* argument (config.max_pages for the dates)
    pages_to_apply,        \* local of the apply_* operations
    page_index,            \* loop variable of the apply_* operations
    file_exists,           \* os.path.exists(abs_path)
    excel,                 \* "none" | "running" | "quit"
    wb,                    \* "none" | "open" | "closed"
    cells,                 \* the open workbook: <<row, col>> -> value
    disk,                  \* the saved file: <<row, col>> -> value
    start_number,          \* argument of apply_control_numbers
    min_jump,              \* argument of apply_control_numbers
    max_jump,              \* argument of apply_control_numbers
    current,               \* local of apply_control_numbers
    days,                  \* argument of _add_days_adjust_weekday
    caller,                \* "none", or "main" while main runs its four calls
    num_items,             \* len(products)
    item_idx,              \* loop variable idx of input_products_page
    invoice_start,         \* main: the answer of _prompt_invoice_start
    control_start          \* main: the answer of _prompt_control_start

vars ==
    <<op, pc, exc, count, start_date, end_date, allowed_weekdays,
      max_repeats_per_date, dates, repeats, extras, iterations, out,
      total_pages, max_pages, pages_to_apply, page_index, file_exists,
      excel, wb, cells, disk, start_number, min_jump, max_jump, current, days,
      caller, num_items, item_idx, invoice_start, control_start>>

genVars ==
    <<count, start_date, end_date, allowed_weekdays, max_repeats_per_date,
      dates, repeats, extras, iterations, out>>

pageVars == <<total_pages, max_pages, pages_to_apply, page_index, file_exists>>

excelVars == <<excel, wb, cells, disk>>

controlVars == <<start_number, min_jump, max_jump, current>>

mainVars == <<caller, num_items, item_idx, invoice_start, control_start>>

\* ------------------------------------------------------------ pure helpers
\* date.weekday(): Monday = 0 .. Sunday = 6
weekday(d) == d % 7

Min(a, b) == IF a <= b THEN a ELSE b

RECURSIVE WeekdaysFrom(_, _)
WeekdaysFrom(cur, end) ==
    IF cur > end THEN <<>>
    ELSE (IF weekday(cur) < 5 THEN <<cur>> ELSE <<>>) \o WeekdaysFrom(cur + 1, end)

\* _weekdays_in_range(start, end): the weekdays of start..end, ascending
weekdays_in_range(start, end) == WeekdaysFrom(start, end)

\* the slice start_idx .. end_idx computed by lines 162-174 (0 = None)
StartIdx(allowed, start) ==
    LET hit == {i \in 1..Len(allowed) : allowed[i] >= start}
    IN  IF hit = {} THEN 0 ELSE CHOOSE i \in hit : \A j \in hit : i <= j

EndIdx(allowed, end) ==
    LET hit == {i \in 1..Len(allowed) : allowed[i] <= end}
    IN  IF hit = {} THEN 0 ELSE CHOOSE i \in hit : \A j \in hit : i >= j

\* variant: the draw is random.choices(population, k=k), with replacement
Samples_with_replacement(S, k) == [1..k -> S]

\* random.sample(population, k): every ordering of every k-subset
RECURSIVE Samples(_, _)
Samples(S, k) ==
    IF k = 0 THEN {<<>>}
    ELSE UNION {{<<x>> \o t : t \in Samples(S \ {x}, k - 1)} : x \in S}

RECURSIVE Insert(_, _)
Insert(x, s) ==
    IF s = <<>> THEN <<x>>
    ELSE IF x <= Head(s) THEN <<x>> \o s
    ELSE <<Head(s)>> \o Insert(x, Tail(s))

\* variant: the sample is used in the order drawn
sorted_skipped(s) == s

RECURSIVE sorted(_)
sorted(s) == IF s = <<>> THEN <<>> ELSE Insert(Head(s), sorted(Tail(s)))

\* _bell_weights(m), abstracted to the sign of each weight: the weight of
\* index i is 2.718281828 ** (-0.5 * x * x) with |x| <= 2, which is > 0, so
\* random.choices can return every index it is given.
bell_weights(m) == [i \in 1..(IF m <= 1 THEN 1 ELSE m) |-> TRUE]

\* variant: an index that has reached the cap is still eligible
eligible_indices_inclusive(reps, cap) == {i \in 1..Len(reps) : reps[i] <= cap}

\* line 248: the indices whose repeat count is still below the cap
eligible_indices(reps, cap) == {i \in 1..Len(reps) : reps[i] < cap}

\* line 254: what random.choices may return
weighted_choices(weights, reps, cap) ==
    {i \in eligible_indices(reps, cap) : weights[i]}

RECURSIVE Expand(_, _, _)
\* lines 208-210: each date of the pool, repeats[i] times, in pool order
Expand(ds, reps, i) ==
    IF i > Len(ds) \/ i > Len(reps) THEN <<>>
    ELSE [k \in 1..reps[i] |-> ds[i]] \o Expand(ds, reps, i + 1)

\* out[:count]
Take(s, n) == IF n >= Len(s) THEN s ELSE SubSeq(s, 1, n)

\* variant: only Sunday is rolled forward
RECURSIVE adjust_forward_sunday_only(_)
adjust_forward_sunday_only(d) ==
    IF weekday(d) > 5 THEN adjust_forward_sunday_only(d + 1) ELSE d

RECURSIVE adjust_forward_to_weekday(_)
adjust_forward_to_weekday(d) ==
    IF weekday(d) >= 5 THEN adjust_forward_to_weekday(d + 1) ELSE d

add_days_adjust_weekday(d, n) == adjust_forward_to_weekday(d + n)

Empty == [x \in {} |-> 0]

\* writing cell <<row, col>> of a sheet
SetCell(sheet, row, col, v) ==
    [k \in DOMAIN sheet \cup {<<row, col>>} |->
        IF k = <<row, col>> THEN v ELSE sheet[k]]

\* ------------------------------------------------------------------- Init
Init ==
    /\ op = "none"
    /\ pc = "idle"
    /\ exc = ""
    /\ count = 0
    /\ start_date = 0
    /\ end_date = 0
    /\ allowed_weekdays = <<>>
    /\ max_repeats_per_date = 0
    /\ dates = <<>>
    /\ repeats = <<>>
    /\ extras = 0
    /\ iterations = 0
    /\ out = <<>>
    /\ total_pages = 0
    /\ max_pages = 0
    /\ pages_to_apply = 0
    /\ page_index = 0
    /\ file_exists = FALSE
    /\ excel = "none"
    /\ wb = "none"
    /\ cells = Empty
    /\ disk = Empty
    /\ start_number = 0
    /\ min_jump = 0
    /\ max_jump = 0
    /\ current = 0
    /\ days = 0
    /\ caller = "none"
    /\ num_items = 0
    /\ item_idx = 0
    /\ invoice_start = 0
    /\ control_start = 0

\* ------------------------------------------------- the generator, 125-213
\* the end dates a range starting on day s is given: every day from s on,
\* and the day before s for a reversed range
RangeEnds(s) == (IF s = 0 THEN 0 ELSE s - 1)..MaxDay

\* a direct call of _generate_random_weekday_dates
CallGenerate ==
    /\ pc = "idle"
    /\ \E s \in 0..MaxDay :
       \E c \in -1..MaxCount, e \in RangeEnds(s),
          cap \in 0..MaxCap, wide \in BOOLEAN :
          /\ count' = c
          /\ start_date' = s
          /\ end_date' = e
          /\ max_repeats_per_date' = cap
          /\ allowed_weekdays' =
                IF wide THEN weekdays_in_range(0, MaxDay)
                ELSE weekdays_in_range(s, e)
    /\ op' = "generate"
    /\ pc' = "gen_entry"
    /\ UNCHANGED <<exc, dates, repeats, extras, iterations, out, pageVars,
                   excelVars, controlVars, days, mainVars>>

\* where control goes when the generator returns or raises
AfterGenerator(raised) ==
    IF op = "apply_dates" /\ ~raised THEN "dispatch" ELSE "done"

\* variant: the slice is not cut at end_idx
pool_slice_open_end(allowed, start, end) ==
    LET si == StartIdx(allowed, start)
        ei == EndIdx(allowed, end)
    IN  IF si = 0 \/ ei = 0 \/ si > ei THEN <<>>
        ELSE SubSeq(allowed, si, Len(allowed))

\* the pool: allowed_weekdays[start_idx : end_idx + 1], lines 162-174
pool_slice(allowed, start, end) ==
    LET si == StartIdx(allowed, start)
        ei == EndIdx(allowed, end)
    IN  IF si = 0 \/ ei = 0 \/ si > ei THEN <<>> ELSE SubSeq(allowed, si, ei)

\* variant: the capacity is overestimated by one
max_possible_loose(cap, m) == cap * m + 1

\* line 177
max_possible(cap, m) == cap * m

\* variant: a count of zero is not returned early
gen_check_zero_passes(c, allowed, start, end, cap) ==
    LET si == StartIdx(allowed, start)
        ei == EndIdx(allowed, end)
        m  == Len(pool_slice(allowed, start, end))
    IN  IF c < 0 THEN "empty"
        ELSE IF allowed = <<>> THEN "ValueError: no weekdays available"
        ELSE IF si = 0 \/ ei = 0 \/ si > ei
             THEN "ValueError: range contains no valid weekdays"
        ELSE IF c > max_possible(cap, m) THEN "ValueError: cannot assign"
        ELSE IF c <= m THEN "sample"
        ELSE "repeat"

\* lines 155-186: which way the generator goes
gen_check(c, allowed, start, end, cap) ==
    LET si == StartIdx(allowed, start)
        ei == EndIdx(allowed, end)
        m  == Len(pool_slice(allowed, start, end))
    IN  IF c <= 0 THEN "empty"
        ELSE IF allowed = <<>> THEN "ValueError: no weekdays available"
        ELSE IF si = 0 \/ ei = 0 \/ si > ei
             THEN "ValueError: range contains no valid weekdays"
        ELSE IF c > max_possible(cap, m) THEN "ValueError: cannot assign"
        ELSE IF c <= m THEN "sample"
        ELSE "repeat"

IsError(label) == label \notin {"empty", "sample", "repeat"}

\* lines 155-186: the early return, the three raises, the branch taken
GenValidate ==
    /\ pc = "gen_entry"
    /\ LET way == gen_check(count, allowed_weekdays, start_date, end_date,
                            max_repeats_per_date)
       IN  /\ exc' = IF IsError(way) THEN way ELSE exc
           /\ dates' = IF way \in {"sample", "repeat", "ValueError: cannot assign"}
                       THEN pool_slice(allowed_weekdays, start_date, end_date)
                       ELSE dates
           /\ out' = IF way = "empty" THEN <<>> ELSE out
           /\ pc' = CASE way = "sample" -> "gen_sample"
                      [] way = "repeat" -> "gen_repeat"
                      [] OTHER -> AfterGenerator(IsError(way))
    /\ UNCHANGED <<op, count, start_date, end_date, allowed_weekdays,
                   max_repeats_per_date, repeats, extras, iterations,
                   pageVars, excelVars, controlVars, days, mainVars>>

\* lines 186-190: an increasing subset of the pool
GenSample ==
    /\ pc = "gen_sample"
    /\ \E s \in Samples(1..Len(dates), count) :
          LET chosen == sorted(s)
          IN  out' = [k \in 1..Len(chosen) |-> dates[chosen[k]]]
    /\ pc' = AfterGenerator(FALSE)
    /\ UNCHANGED <<op, exc, count, start_date, end_date, allowed_weekdays,
                   max_repeats_per_date, dates, repeats, extras, iterations,
                   pageVars, excelVars, controlVars, days, mainVars>>

\* variant: the repeat counts start at zero
initial_repeats_zero(m) == [i \in 1..m |-> 0]

\* line 193
initial_repeats(m) == [i \in 1..m |-> 1]

\* variant: one extra too few
initial_extras_short(c, m) == c - m - 1

\* variant: one extra too many
initial_extras_long(c, m) == c - m + 1

\* line 194
initial_extras(c, m) == c - m

\* variant: the chosen index gains two occurrences
increment_twice(reps, idx) == [reps EXCEPT ![idx] = @ + 2]

\* line 204: repeats[idx] += 1
increment(reps, idx) == [reps EXCEPT ![idx] = @ + 1]

\* lines 193-198: one occurrence of each date, the rest are extras
GenInitRepeats ==
    /\ pc = "gen_repeat"
    /\ repeats' = initial_repeats(Len(dates))
    /\ extras' = initial_extras(count, Len(dates))
    /\ iterations' = 0
    /\ pc' = "gen_loop"
    /\ UNCHANGED <<op, exc, count, start_date, end_date, allowed_weekdays,
                   max_repeats_per_date, dates, out,
                   pageVars, excelVars, controlVars, days, mainVars>>

\* lines 202-205 with _weighted_choice_index (240-255): one loop iteration
GenAllocate ==
    /\ pc = "gen_loop"
    /\ extras > 0
    /\ LET choices == weighted_choices(bell_weights(Len(dates)), repeats,
                                       max_repeats_per_date)
       IN  IF eligible_indices(repeats, max_repeats_per_date) = {}
           THEN /\ exc' = "ValueError: no eligible dates left"
                /\ pc' = AfterGenerator(TRUE)
                /\ UNCHANGED <<repeats, extras, iterations>>
           ELSE /\ \E idx \in choices :
                      repeats' = increment(repeats, idx)
                /\ extras' = extras - 1
                /\ iterations' = iterations + 1
                /\ UNCHANGED <<exc, pc>>
    /\ UNCHANGED <<op, count, start_date, end_date, allowed_weekdays,
                   max_repeats_per_date, dates, out,
                   pageVars, excelVars, controlVars, days, mainVars>>

\* lines 208-213: the loop has ended; expand and trim
GenExpand ==
    /\ pc = "gen_loop"
    /\ extras <= 0
    /\ out' = Take(Expand(dates, repeats, 1), count)
    /\ pc' = AfterGenerator(FALSE)
    /\ UNCHANGED <<op, exc, count, start_date, end_date, allowed_weekdays,
                   max_repeats_per_date, dates, repeats, extras, iterations,
                   pageVars, excelVars, controlVars, days, mainVars>>

\* ------------------------------- _add_days_adjust_weekday, lines 268-276
CallAddDays ==
    /\ pc = "idle"
    /\ \E d \in 0..MaxDay, n \in 0..MaxOffset :
          /\ start_date' = d
          /\ days' = n
    /\ op' = "add_days"
    /\ pc' = "add_entry"
    /\ UNCHANGED <<exc, count, end_date, allowed_weekdays, max_repeats_per_date,
                   dates, repeats, extras, iterations, out, pageVars,
                   excelVars, controlVars, mainVars>>

AddDays ==
    /\ pc = "add_entry"
    /\ out' = <<add_days_adjust_weekday(start_date, days)>>
    /\ pc' = "done"
    /\ UNCHANGED <<op, exc, count, start_date, end_date, allowed_weekdays,
                   max_repeats_per_date, dates, repeats, extras, iterations,
                   pageVars, excelVars, controlVars, days, mainVars>>

\* ------------------------------ the spreadsheet application's life cycle
\* win32.DispatchEx("Excel.Application"); wb = None
Dispatch(o) ==
    /\ op = o
    /\ pc = "dispatch"
    /\ excel' = "running"
    /\ wb' = "none"
    /\ pc' = "open"
    /\ UNCHANGED <<op, exc, genVars, pageVars, cells, disk, controlVars, days, mainVars>>

\* excel.Workbooks.Open(abs_path) raises: control goes to the finally block
OpenFails(o) ==
    /\ op = o
    /\ pc = "open"
    /\ exc' = "com_error: open"
    /\ pc' = "finally"
    /\ UNCHANGED <<op, genVars, pageVars, excelVars, controlVars, days, mainVars>>

\* a cell access of the loop raises: control goes to the finally block
WriteFails(o, i, n) ==
    /\ op = o
    /\ pc = "write"
    /\ i < n
    /\ exc' = "com_error: write"
    /\ pc' = "finally"
    /\ UNCHANGED <<op, genVars, pageVars, excelVars, controlVars, days, mainVars>>

\* the loop has ended: wb.Save()
Save(o, i, n) ==
    /\ op = o
    /\ pc = "write"
    /\ i >= n
    /\ disk' = cells
    /\ pc' = "finally"
    /\ UNCHANGED <<op, exc, genVars, pageVars, excel, wb, cells, controlVars, days, mainVars>>

\* variant: no try/finally: an exception leaves the function at once
Finally_only_without_error(o) ==
    /\ op = o
    /\ pc = "finally"
    /\ wb' = IF wb = "none" \/ exc # "" THEN wb ELSE "closed"
    /\ disk' = IF wb = "none" \/ exc # "" THEN disk ELSE cells
    /\ excel' = IF exc # "" THEN excel ELSE "quit"
    /\ pc' = "done"
    /\ UNCHANGED <<op, exc, genVars, pageVars, cells, controlVars, days, mainVars>>

\* finally: wb.Close(SaveChanges=True) if wb is not None; excel.Quit()
Finally(o) ==
    /\ op = o
    /\ pc = "finally"
    /\ wb' = IF wb = "none" THEN "none" ELSE "closed"
    /\ disk' = IF wb = "none" THEN disk ELSE cells
    /\ excel' = "quit"
    /\ pc' = "done"
    /\ UNCHANGED <<op, exc, genVars, pageVars, cells, controlVars, days, mainVars>>

\* ------------------ apply_invoice_and_expiration_dates, lines 32-122
CallApplyDates ==
    /\ pc = "idle"
    /\ \E s \in 0..MaxDay :
       \E tp \in -1..MaxDatePages, e \in RangeEnds(s),
          mp \in {SmallMaxPages, default_max_pages}, fe \in BOOLEAN :
          /\ total_pages' = tp
          /\ start_date' = s
          /\ end_date' = e
          /\ max_pages' = mp
          /\ file_exists' = fe
    /\ op' = "apply_dates"
    /\ pc' = "apply_entry"
    /\ UNCHANGED <<exc, count, allowed_weekdays, max_repeats_per_date, dates,
                   repeats, extras, iterations, out, pages_to_apply, page_index,
                   excelVars, controlVars, days, mainVars>>

\* lines 55-80: which way apply_invoice_and_expiration_dates goes
apply_dates_check(tp, s, e, exists, first_row, second_row) ==
    IF tp <= 0 THEN "return"
    ELSE IF weekday(s) >= 5 \/ weekday(e) >= 5
         THEN "ValueError: start_date and end_date must be weekdays"
    ELSE IF e < s THEN "ValueError: end_date before start_date"
    ELSE IF ~exists THEN "FileNotFoundError"
    ELSE IF second_row - first_row <= 0 THEN "ValueError: invalid page stride"
    ELSE IF weekdays_in_range(s, e) = <<>>
         THEN "ValueError: no weekdays available"
    ELSE "generate"

\* lines 55-88: validation, then the call of the generator
ApplyDatesValidate ==
    /\ op = "apply_dates"
    /\ pc = "apply_entry"
    /\ LET way == apply_dates_check(total_pages, start_date, end_date,
                      file_exists, invoice_first_row, invoice_second_row)
       IN  /\ exc' = IF way \in {"return", "generate"} THEN exc ELSE way
           /\ pc' = IF way = "generate" THEN "gen_entry" ELSE "done"
           /\ pages_to_apply' =
                 IF way \in {"FileNotFoundError", "generate"}
                 THEN Min(total_pages, max_pages) ELSE pages_to_apply
           /\ count' = IF way = "generate"
                       THEN Min(total_pages, max_pages) ELSE count
           /\ allowed_weekdays' =
                 IF way = "generate" THEN weekdays_in_range(start_date, end_date)
                 ELSE allowed_weekdays
           /\ max_repeats_per_date' =
                 IF way = "generate" THEN apply_max_repeats
                 ELSE max_repeats_per_date
    /\ UNCHANGED <<op, start_date, end_date, dates, repeats, extras, iterations,
                   out, total_pages, max_pages, page_index, file_exists,
                   excelVars, controlVars, days, mainVars>>

\* lines 90-94
ApplyDatesDispatch == Dispatch("apply_dates")

\* lines 96-97
ApplyDatesOpen ==
    /\ op = "apply_dates"
    /\ pc = "open"
    /\ wb' = "open"
    /\ cells' = disk
    /\ page_index' = 0
    /\ pc' = "write"
    /\ UNCHANGED <<op, exc, genVars, total_pages, max_pages, pages_to_apply,
                   file_exists,
                   excel, disk, controlVars, days, mainVars>>

ApplyDatesOpenFails == OpenFails("apply_dates")

\* row of the invoice date of page p (0-based), line 100
invoice_row(p) ==
    invoice_first_row + p * (invoice_second_row - invoice_first_row)

\* lines 99-114: one page, its invoice date and its expiration date
ApplyDatesWritePage ==
    /\ op = "apply_dates"
    /\ pc = "write"
    /\ page_index < Len(out)
    /\ LET inv_date == out[page_index + 1]
           inv_row  == invoice_row(page_index)
           exp_row  == inv_row + expiration_row_offset
           exp_date == add_days_adjust_weekday(inv_date, expiration_days)
       IN  cells' = SetCell(SetCell(cells, inv_row, invoice_col, inv_date),
                            exp_row, invoice_col, exp_date)
    /\ page_index' = page_index + 1
    /\ UNCHANGED <<op, pc, exc, genVars, total_pages, max_pages, pages_to_apply,
                   file_exists, excel, wb, disk, controlVars, days, mainVars>>

ApplyDatesWriteFails == WriteFails("apply_dates", page_index, Len(out))

\* line 116
ApplyDatesSave == Save("apply_dates", page_index, Len(out))

\* lines 119-122
ApplyDatesFinally == Finally("apply_dates")

\* ----------------------- apply_control_numbers, controlNumbering.py 10-107
ControlStarts ==
    {-1, 0} \cup ((SixDigitMax - MaxSlack)..(SixDigitMax + 1))

CallApplyControl ==
    /\ pc = "idle"
    /\ \E sn \in ControlStarts, tp \in 0..MaxControlPages,
          mn \in 0..MaxJump, mx \in 0..MaxJump,
          mp \in {SmallMaxPages, default_max_pages}, fe \in BOOLEAN :
          /\ start_number' = sn
          /\ total_pages' = tp
          /\ min_jump' = mn
          /\ max_jump' = mx
          /\ max_pages' = mp
          /\ file_exists' = fe
    /\ op' = "apply_control"
    /\ pc' = "control_entry"
    /\ UNCHANGED <<exc, genVars, pages_to_apply, page_index, excelVars,
                   current, days, mainVars>>

\* lines 43-65: which way apply_control_numbers goes
control_check(sn, tp, mn, mx, exists, first_row, second_row) ==
    IF sn < 0 THEN "ValueError: start_number must be >= 0"
    ELSE IF ~(0 <= sn /\ sn <= SixDigitMax)
         THEN "ValueError: start_number must fit in 6 digits"
    ELSE IF tp <= 0 THEN "return"
    ELSE IF mn <= 0 \/ mx < mn THEN "ValueError: invalid jump range"
    ELSE IF ~exists THEN "FileNotFoundError"
    ELSE IF second_row - first_row <= 0 THEN "ValueError: invalid page stride"
    ELSE "dispatch"

ControlValidate ==
    /\ op = "apply_control"
    /\ pc = "control_entry"
    /\ LET way == control_check(start_number, total_pages, min_jump, max_jump,
                      file_exists, control_first_row, control_second_row)
       IN  /\ exc' = IF way \in {"return", "dispatch"} THEN exc ELSE way
           /\ pc' = IF way = "dispatch" THEN "dispatch" ELSE "done"
           /\ pages_to_apply' =
                 IF way \in {"FileNotFoundError", "dispatch"}
                 THEN Min(total_pages, max_pages) ELSE pages_to_apply
    /\ UNCHANGED <<op, genVars, total_pages, max_pages, page_index, file_exists,
                   excelVars, controlVars, days, mainVars>>

\* lines 67-71
ControlDispatch == Dispatch("apply_control")

\* lines 73-76
ControlOpen ==
    /\ op = "apply_control"
    /\ pc = "open"
    /\ wb' = "open"
    /\ cells' = disk
    /\ current' = start_number
    /\ page_index' = 0
    /\ pc' = "write"
    /\ UNCHANGED <<op, exc, genVars, total_pages, max_pages, pages_to_apply,
                   file_exists, excel, disk, start_number, min_jump, max_jump,
                   days, mainVars>>

ControlOpenFails == OpenFails("apply_control")

\* row of the control number of page p (0-based), line 79
control_row(p) ==
    control_first_row + p * (control_second_row - control_first_row)

\* variant: the six-digit check is off by one
control_overflow_late(cur) == cur > SixDigitMax + 1

\* line 93
control_overflow(cur) == cur > SixDigitMax

\* lines 78-97: one page: write current, then jump, then the six-digit check
ControlWritePage ==
    /\ op = "apply_control"
    /\ pc = "write"
    /\ page_index < pages_to_apply
    /\ cells' = SetCell(cells, control_row(page_index), control_col, current)
    /\ \E jump \in min_jump..max_jump :
          /\ current' = current + jump
          /\ IF control_overflow(current + jump)
             THEN /\ exc' = "ValueError: control number exceeded 6 digits"
                  /\ pc' = "finally"
                  /\ UNCHANGED page_index
             ELSE /\ page_index' = page_index + 1
                  /\ UNCHANGED <<exc, pc>>
    /\ UNCHANGED <<op, genVars, total_pages, max_pages, pages_to_apply,
                   file_exists, excel, wb, disk, start_number, min_jump,
                   max_jump, days, mainVars>>

ControlWriteFails == WriteFails("apply_control", page_index, pages_to_apply)

\* lines 99-102
ControlSave == Save("apply_control", page_index, pages_to_apply)

\* lines 104-107
ControlFinally == Finally("apply_control")

\* ------------------- apply_invoice_numbers, invoiceNumbering.py 42-102
CallInvoiceNumbers ==
    /\ pc = "idle"
    /\ \E sn \in 0..MaxInvoiceStart, tp \in 0..MaxControlPages,
          mp \in {SmallMaxPages, default_max_pages}, fe \in BOOLEAN :
          /\ start_number' = sn
          /\ total_pages' = tp
          /\ max_pages' = mp
          /\ file_exists' = fe
    /\ op' = "invoice_numbers"
    /\ pc' = "numbers_entry"
    /\ UNCHANGED <<exc, genVars, pages_to_apply, page_index, excelVars,
                   min_jump, max_jump, current, days, mainVars>>

\* lines 58-77: which way apply_invoice_numbers goes
numbers_check(sn, tp, exists, first_row, second_row) ==
    IF sn <= 0 THEN "ValueError: start_number must be a positive integer"
    ELSE IF tp <= 0 THEN "return"
    ELSE IF ~exists THEN "FileNotFoundError"
    ELSE IF second_row - first_row <= 0 THEN "ValueError: invalid page stride"
    ELSE "dispatch"

NumbersValidate ==
    /\ op = "invoice_numbers"
    /\ pc = "numbers_entry"
    /\ LET way == numbers_check(start_number, total_pages, file_exists,
                                number_first_row, number_second_row)
       IN  /\ exc' = IF way \in {"return", "dispatch"} THEN exc ELSE way
           /\ pc' = IF way = "dispatch" THEN "dispatch" ELSE "done"
           /\ pages_to_apply' =
                 IF way \in {"FileNotFoundError", "dispatch"}
                 THEN Min(total_pages, max_pages) ELSE pages_to_apply
    /\ UNCHANGED <<op, genVars, total_pages, max_pages, page_index, file_exists,
                   excelVars, controlVars, days, mainVars>>

\* lines 79-83
NumbersDispatch == Dispatch("invoice_numbers")

\* lines 85-86
NumbersOpen ==
    /\ op = "invoice_numbers"
    /\ pc = "open"
    /\ wb' = "open"
    /\ cells' = disk
    /\ page_index' = 0
    /\ pc' = "write"
    /\ UNCHANGED <<op, exc, genVars, total_pages, max_pages, pages_to_apply,
                   file_exists, excel, disk, controlVars, days, mainVars>>

NumbersOpenFails == OpenFails("invoice_numbers")

\* row of the invoice number of page p (0-based), line 90
number_row(p) ==
    number_first_row + p * (number_second_row - number_first_row)

\* lines 88-91: one page
NumbersWritePage ==
    /\ op = "invoice_numbers"
    /\ pc = "write"
    /\ page_index < pages_to_apply
    /\ cells' = SetCell(cells, number_row(page_index), number_col,
                        start_number + page_index)
    /\ page_index' = page_index + 1
    /\ UNCHANGED <<op, pc, exc, genVars, total_pages, max_pages, pages_to_apply,
                   file_exists, excel, wb, disk, controlVars, days, mainVars>>

NumbersWriteFails == WriteFails("invoice_numbers", page_index, pages_to_apply)

\* lines 93-97
NumbersSave == Save("invoice_numbers", page_index, pages_to_apply)

\* lines 99-102
NumbersFinally == Finally("invoice_numbers")

\* ------------------------- input_products_page, invoicing.py 9-100
CallProducts ==
    /\ pc = "idle"
    /\ \E n \in 0..MaxProducts, fe \in BOOLEAN :
          /\ num_items' = n
          /\ file_exists' = fe
    /\ op' = "products"
    /\ pc' = "products_entry"
    /\ UNCHANGED <<exc, genVars, total_pages, max_pages, pages_to_apply,
                   page_index, excelVars, controlVars, days, caller, item_idx,
                   invoice_start, control_start>>

\* lines 47-55: which way input_products_page goes
products_check(n, first_row, second_row) ==
    IF n = 0 THEN "ValueError: products is empty"
    ELSE IF second_row - first_row <= 0 THEN "ValueError: invalid page stride"
    ELSE "dispatch"

ProductsValidate ==
    /\ op = "products"
    /\ pc = "products_entry"
    /\ LET way == products_check(num_items, first_page_start_row,
                                 second_page_start_row)
       IN  /\ exc' = IF way = "dispatch" THEN exc ELSE way
           /\ pc' = IF way = "dispatch" THEN "dispatch" ELSE "done"
    /\ UNCHANGED <<op, genVars, pageVars, excelVars, controlVars, days,
                   mainVars>>

\* lines 59-63
ProductsDispatch == Dispatch("products")

\* lines 65-71: open the file, or add a workbook and save it under the name
ProductsOpen ==
    /\ op = "products"
    /\ pc = "open"
    /\ wb' = "open"
    /\ cells' = IF file_exists THEN disk ELSE Empty
    /\ disk' = IF file_exists THEN disk ELSE Empty
    /\ file_exists' = TRUE
    /\ item_idx' = 0
    /\ pc' = "write"
    /\ UNCHANGED <<op, exc, genVars, total_pages, max_pages, pages_to_apply,
                   page_index, excel, controlVars, days, caller, num_items,
                   invoice_start, control_start>>

ProductsOpenFails == OpenFails("products")

\* lines 68-69: the workbook is added, and wb.SaveAs(abs_path) raises
ProductsSaveAsFails ==
    /\ op = "products"
    /\ pc = "open"
    /\ ~file_exists
    /\ wb' = "open"
    /\ cells' = Empty
    /\ exc' = "com_error: save as"
    /\ pc' = "finally"
    /\ UNCHANGED <<op, genVars, pageVars, excel, disk, controlVars, days,
                   mainVars>>

\* lines 74-78: the row of product i (0-based)
item_row(i) ==
    LET page == i \div items_per_page
        slot == i % items_per_page
    IN  first_page_start_row
          + page * (second_page_start_row - first_page_start_row)
          + slot * row_step

\* lines 85-91: the five cells of product i; a product is written as its
\* number i + 1 in each of them
WriteProduct(sheet, i) ==
    LET r  == item_row(i)
        s1 == SetCell(sheet, r, start_col + COL_DESC, i + 1)
        s2 == SetCell(s1, r, start_col + COL_QTY, i + 1)
        s3 == SetCell(s2, r, start_col + COL_UNIT, i + 1)
        s4 == SetCell(s3, r, start_col + COL_TOTAL, i + 1)
    IN  SetCell(s4, r + 1, start_col, i + 1)

\* lines 73-91: one product
ProductsWriteItem ==
    /\ op = "products"
    /\ pc = "write"
    /\ item_idx < num_items
    /\ cells' = WriteProduct(cells, item_idx)
    /\ item_idx' = item_idx + 1
    /\ UNCHANGED <<op, pc, exc, genVars, pageVars, excel, wb, disk,
                   controlVars, days, caller, num_items, invoice_start,
                   control_start>>

ProductsWriteFails == WriteFails("products", item_idx, num_items)

\* lines 93-95
ProductsSave == Save("products", item_idx, num_items)

\* lines 97-100
ProductsFinally == Finally("products")

\* ------------------------------------------------- main, main.py 63-110
\* _compute_total_pages, lines 38-39
compute_total_pages(n, per_page) == (n + per_page - 1) \div per_page

\* the lengths of the product list main is run with: whole pages up to the
\* page cap, each with and without one more product on a further page
MainProductCounts ==
    {ITEMS_PER_PAGE * p + x : p \in 0..MainMaxPages, x \in {0, 1}}

\* lines 64-84: load the products, prompt, copy the template, then call
\* input_products_page; the prompts return only valid answers
CallMain ==
    /\ pc = "idle"
    /\ \E n \in MainProductCounts,
          inv \in {1, MaxInvoiceStart},
          ctl \in {0, SixDigitMax},
          e \in {0, 1},
          template \in BOOLEAN :
          /\ num_items' = n
          /\ total_pages' = compute_total_pages(n, ITEMS_PER_PAGE)
          /\ invoice_start' = inv
          /\ control_start' = ctl
          /\ start_date' = 0
          /\ end_date' = e
          /\ file_exists' = template
          /\ exc' = IF template THEN "" ELSE "FileNotFoundError: template"
          /\ op' = IF template THEN "products" ELSE "main"
          /\ pc' = IF template THEN "products_entry" ELSE "done"
    /\ caller' = "main"
    /\ UNCHANGED <<count, allowed_weekdays, max_repeats_per_date, dates, repeats,
                   extras, iterations, out, max_pages, pages_to_apply,
                   page_index, excelVars, controlVars, days, item_idx>>

\* lines 87-91: input_products_page has returned
MainCallNumbers ==
    /\ caller = "main"
    /\ op = "products"
    /\ pc = "done"
    /\ exc = ""
    /\ op' = "invoice_numbers"
    /\ pc' = "numbers_entry"
    /\ start_number' = invoice_start
    /\ max_pages' = MainMaxPages
    /\ UNCHANGED <<exc, genVars, total_pages, pages_to_apply, page_index,
                   file_exists, excelVars, min_jump, max_jump, current, days,
                   mainVars>>

\* lines 94-100: apply_invoice_numbers has returned
MainCallControl ==
    /\ caller = "main"
    /\ op = "invoice_numbers"
    /\ pc = "done"
    /\ exc = ""
    /\ op' = "apply_control"
    /\ pc' = "control_entry"
    /\ start_number' = control_start
    /\ min_jump' = default_min_jump
    /\ max_jump' = MainMaxJump
    /\ max_pages' = MainMaxPages
    /\ UNCHANGED <<exc, genVars, total_pages, pages_to_apply, page_index,
                   file_exists, excelVars, current, days, mainVars>>

\* lines 103-108: apply_control_numbers has returned
MainCallDates ==
    /\ caller = "main"
    /\ op = "apply_control"
    /\ pc = "done"
    /\ exc = ""
    /\ op' = "apply_dates"
    /\ pc' = "apply_entry"
    /\ max_pages' = MainMaxPages
    /\ UNCHANGED <<exc, genVars, total_pages, pages_to_apply, page_index,
                   file_exists, excelVars, controlVars, days, mainVars>>

\* line 110, or an exception of one of the four calls leaving main
MainReturn ==
    /\ caller = "main"
    /\ op \in {"products", "invoice_numbers", "apply_control", "apply_dates"}
    /\ pc = "done"
    /\ (exc # "" \/ op = "apply_dates")
    /\ op' = "main"
    /\ UNCHANGED <<pc, exc, genVars, pageVars, excelVars, controlVars, days,
                   mainVars>>

Next ==
    \/ CallGenerate
    \/ GenValidate
    \/ GenSample
    \/ GenInitRepeats
    \/ GenAllocate
    \/ GenExpand
    \/ CallAddDays
    \/ AddDays
    \/ CallApplyDates
    \/ ApplyDatesValidate
    \/ ApplyDatesDispatch
    \/ ApplyDatesOpen
    \/ ApplyDatesOpenFails
    \/ ApplyDatesWritePage
    \/ ApplyDatesWriteFails
    \/ ApplyDatesSave
    \/ ApplyDatesFinally
    \/ CallApplyControl
    \/ ControlValidate
    \/ ControlDispatch
    \/ ControlOpen
    \/ ControlOpenFails
    \/ ControlWritePage
    \/ ControlWriteFails
    \/ ControlSave
    \/ ControlFinally
    \/ CallInvoiceNumbers
    \/ NumbersValidate
    \/ NumbersDispatch
    \/ NumbersOpen
    \/ NumbersOpenFails
    \/ NumbersWritePage
    \/ NumbersWriteFails
    \/ NumbersSave
    \/ NumbersFinally
    \/ CallProducts
    \/ ProductsValidate
    \/ ProductsDispatch
    \/ ProductsOpen
    \/ ProductsOpenFails
    \/ ProductsSaveAsFails
    \/ ProductsWriteItem
    \/ ProductsWriteFails
    \/ ProductsSave
    \/ ProductsFinally
    \/ CallMain
    \/ MainCallNumbers
    \/ MainCallControl
    \/ MainCallDates
    \/ MainReturn

Spec == Init /\ [][Next]_vars

\* the program is single-threaded and synchronous: a step that can be taken
\* is taken
FairSpec == Spec /\ WF_vars(Next)

\* ================================================================ claims
Pool == weekdays_in_range(start_date, end_date)

ValidRange ==
    /\ weekday(start_date) < 5
    /\ weekday(end_date) < 5
    /\ end_date >= start_date

\* the generator has been called with a valid input
ValidGen ==
    /\ op \in {"generate", "apply_dates"}
    /\ count >= 1
    /\ ValidRange
    /\ count <= max_repeats_per_date * Len(Pool)

\* control has left the generator
GenDone ==
    pc \notin {"idle", "apply_entry", "gen_entry", "gen_sample", "gen_repeat",
               "gen_loop"}

GenErrors ==
    {"ValueError: no weekdays available",
     "ValueError: range contains no valid weekdays",
     "ValueError: cannot assign",
     "ValueError: no eligible dates left"}

Occurrences(s, d) == Cardinality({i \in 1..Len(s) : s[i] = d})

\* C1: for every valid input and every outcome of the random draws the
\* generator returns (it does not raise) a sequence of exactly count dates.
C1_LengthIsCount ==
    (ValidGen /\ GenDone) => (exc \notin GenErrors /\ Len(out) = count)

C1_Witness ==
    /\ ValidGen /\ GenDone /\ op = "generate"
    /\ count > Len(Pool) /\ Len(Pool) >= 2
    /\ Len(out) = count

\* C2: for every valid input and every outcome of the random draws no date
\* occurs more than max_repeats_per_date times in the returned sequence.
C2_RepeatCap ==
    (ValidGen /\ GenDone) =>
        \A i \in 1..Len(out) : Occurrences(out, out[i]) <= max_repeats_per_date

C2_Witness ==
    /\ ValidGen /\ GenDone
    /\ max_repeats_per_date >= 2
    /\ Len(Pool) >= 2
    /\ \E i \in 1..Len(out) : Occurrences(out, out[i]) = max_repeats_per_date
    /\ \E i \in 1..Len(out) : Occurrences(out, out[i]) < max_repeats_per_date

\* C3: for every valid input the returned sequence is non-decreasing, on the
\* sampling branch and on the repeat branch, so the occurrences of one date
\* form a single contiguous run.
C3_NonDecreasing ==
    (ValidGen /\ GenDone) =>
        /\ \A i, j \in 1..Len(out) : i < j => out[i] <= out[j]
        /\ \A i, j, k \in 1..Len(out) :
              (i < k /\ k < j /\ out[i] = out[j]) => out[k] = out[i]

C3_Witness ==
    /\ ValidGen /\ GenDone
    /\ count <= Len(Pool)
    /\ count >= 3
    /\ out[1] < out[2] /\ out[2] < out[3]

C3_WitnessRepeatBranch ==
    /\ ValidGen /\ GenDone
    /\ count > Len(Pool)
    /\ Len(Pool) >= 2
    /\ \E i \in 1..(Len(out) - 1) : out[i] = out[i + 1]
    /\ \E i \in 1..(Len(out) - 1) : out[i] < out[i + 1]

\* C4: for every valid input every returned date is a Monday-to-Friday day d
\* with start_date <= d <= end_date; no Saturday or Sunday is produced.
C4_WeekdaysInRange ==
    (ValidGen /\ GenDone) =>
        \A i \in 1..Len(out) :
            /\ weekday(out[i]) < 5
            /\ start_date <= out[i]
            /\ out[i] <= end_date

C4_Witness ==
    /\ ValidGen /\ GenDone
    /\ Len(allowed_weekdays) > Len(Pool)
    /\ end_date - start_date >= 5
    /\ Len(out) = count
    /\ out[Len(out)] = end_date

\* C5: when 1 <= count <= |pool| the returned dates are pairwise distinct:
\* the sequence is strictly increasing, whatever the sample.
C5_DistinctWhenRoom ==
    (ValidGen /\ GenDone /\ count <= Len(Pool)) =>
        \A i, j \in 1..Len(out) : i < j => out[i] < out[j]

C5_Witness ==
    /\ ValidGen /\ GenDone
    /\ count <= Len(Pool)
    /\ count >= 2
    /\ Len(out) = count
    /\ count < Len(Pool)

\* the generator has been called with more pages than the pool can hold
Infeasible ==
    /\ op \in {"generate", "apply_dates"}
    /\ count >= 1
    /\ ValidRange
    /\ count > max_repeats_per_date * Len(Pool)

\* C6: when count > max_repeats_per_date * |pool| the generator raises before
\* any repeat allocation and returns no dates; in
\* apply_invoice_and_expiration_dates the error comes before the application
\* is started and the workbook opened, so no date cell is written.
C6_InfeasibleFailsFirst ==
    (Infeasible /\ pc # "gen_entry") =>
        /\ pc = "done"
        /\ exc = "ValueError: cannot assign"
        /\ out = <<>>
        /\ repeats = <<>>
        /\ iterations = 0
        /\ excel = "none"
        /\ wb = "none"
        /\ cells = Empty
        /\ disk = Empty

\* the spec's example: a single weekday, count = 2, cap = 1
C6_Witness ==
    /\ op = "generate"
    /\ pc = "done"
    /\ start_date = end_date
    /\ weekday(start_date) < 5
    /\ count = 2
    /\ max_repeats_per_date = 1
    /\ exc = "ValueError: cannot assign"

C6_WitnessApply ==
    /\ op = "apply_dates"
    /\ pc = "done"
    /\ Infeasible
    /\ exc = "ValueError: cannot assign"

\* a call with a non-positive count
NonPositiveCall ==
    \/ op = "generate" /\ count <= 0
    \/ op = "apply_dates" /\ total_pages <= 0

\* C7 as stated: a non-positive count makes the generator, and
\* apply_invoice_and_expiration_dates, end with an invalid-input error.
C7_NonPositiveRaises ==
    (NonPositiveCall /\ pc = "done") => exc # ""

\* C7 as amended: a non-positive count is not an error: the generator returns
\* the empty list at once, without a draw, and
\* apply_invoice_and_expiration_dates returns at once without starting the
\* application or writing a cell.
C7_NonPositiveReturnsEmpty ==
    NonPositiveCall =>
        /\ pc \in {"gen_entry", "apply_entry", "done"}
        /\ exc = ""
        /\ out = <<>>
        /\ excel = "none"
        /\ cells = Empty
        /\ disk = Empty

C7_Witness ==
    /\ op = "generate"
    /\ count = 0
    /\ ValidRange
    /\ max_repeats_per_date >= 1
    /\ pc = "done"
    /\ exc = ""
    /\ out = <<>>

C7_WitnessApply ==
    /\ op = "apply_dates"
    /\ total_pages <= 0
    /\ pc = "done"
    /\ exc = ""

\* Monday to Friday of one week, count = 10, cap = 3, generator finished
FiveDayCase ==
    /\ op \in {"generate", "apply_dates"}
    /\ weekday(start_date) = 0
    /\ end_date = start_date + 4
    /\ count = 10
    /\ max_repeats_per_date = 3
    /\ GenDone

\* C8 as stated: every outcome has each of the five weekdays exactly twice.
C8_EachExactlyTwice ==
    FiveDayCase => \A d \in start_date..end_date : Occurrences(out, d) = 2

\* C8 as amended: every outcome has each of the five weekdays at least once
\* and at most three times, ten dates in all.
C8_EachOneToThree ==
    FiveDayCase =>
        /\ Len(out) = 10
        /\ \A d \in start_date..end_date :
              /\ Occurrences(out, d) >= 1
              /\ Occurrences(out, d) <= 3

C8_Witness ==
    /\ FiveDayCase
    /\ Len(out) = 10
    /\ \E d \in start_date..end_date : Occurrences(out, d) = 3
    /\ \E d \in start_date..end_date : Occurrences(out, d) = 1

C8_WitnessEven ==
    /\ FiveDayCase
    /\ \A d \in start_date..end_date : Occurrences(out, d) = 2

\* C9: _add_days_adjust_weekday(d, n) is the earliest Monday-to-Friday day
\* >= d + n: d + n itself on a weekday, d + n + 2 on a Saturday, d + n + 1
\* on a Sunday.
C9_EarliestWeekday ==
    (op = "add_days" /\ pc = "done") =>
        LET t == start_date + days
            r == out[1]
        IN  /\ r >= t
            /\ weekday(r) < 5
            /\ \A x \in t..(r - 1) : weekday(x) >= 5
            /\ weekday(t) < 5 => r = t
            /\ weekday(t) = 5 => r = t + 2
            /\ weekday(t) = 6 => r = t + 1

C9_Witness ==
    /\ op = "add_days"
    /\ pc = "done"
    /\ days > 0
    /\ weekday(start_date + days) = 5
    /\ out = <<start_date + days + 2>>

\* apply_control_numbers has been called with valid inputs, directly, on a
\* workbook that holds no values yet
ControlValid ==
    /\ op = "apply_control"
    /\ caller = "none"
    /\ 0 <= start_number
    /\ start_number <= SixDigitMax
    /\ 1 <= min_jump
    /\ min_jump <= max_jump
    /\ total_pages >= 1

ControlCell(p) == <<control_row(p), control_col>>

ControlPages == 0..(Min(total_pages, max_pages) - 1)

\* C10: for valid inputs of apply_control_numbers page 0 receives
\* start_number, each later page receives the value of the page before it
\* plus a jump in min_jump..max_jump, only the first min(total_pages,
\* max_pages) pages are written, and every written value is in 0..999999;
\* a call that ends without error has written all of those pages.
C10_ControlNumbers ==
    ControlValid =>
        /\ DOMAIN cells \subseteq {ControlCell(p) : p \in ControlPages}
        /\ \A p \in ControlPages :
              ControlCell(p) \in DOMAIN cells =>
                  /\ cells[ControlCell(p)] >= 0
                  /\ cells[ControlCell(p)] <= SixDigitMax
                  /\ p = 0 => cells[ControlCell(p)] = start_number
                  /\ p > 0 =>
                        /\ ControlCell(p - 1) \in DOMAIN cells
                        /\ cells[ControlCell(p)] - cells[ControlCell(p - 1)]
                              \in min_jump..max_jump
        /\ DOMAIN disk \subseteq DOMAIN cells
        /\ \A k \in DOMAIN disk : disk[k] = cells[k]
        /\ (pc = "done" /\ exc = "" /\ file_exists) =>
              DOMAIN disk = {ControlCell(p) : p \in ControlPages}

C10_Witness ==
    /\ ControlValid
    /\ pc = "done"
    /\ exc = ""
    /\ total_pages > max_pages
    /\ min_jump < max_jump
    /\ DOMAIN disk = {ControlCell(0), ControlCell(1)}
    /\ disk[ControlCell(1)] = SixDigitMax - 1
    /\ disk[ControlCell(0)] = disk[ControlCell(1)] - max_jump

\* the generator is on the repeat-allocation branch of a valid call
RepeatBranch ==
    /\ ValidGen
    /\ count > Len(Pool)
    /\ pc \notin {"gen_entry", "gen_repeat"}

RECURSIVE SumSeq(_)
SumSeq(s) == IF s = <<>> THEN 0 ELSE Head(s) + SumSeq(Tail(s))

\* what holds of the repeat counts in every state of the loop and after it
C11_RepeatsInvariant ==
    RepeatBranch =>
        /\ Len(repeats) = Len(Pool)
        /\ \A i \in 1..Len(repeats) :
              /\ 1 <= repeats[i]
              /\ repeats[i] <= max_repeats_per_date
        /\ iterations = 0 => \A i \in 1..Len(repeats) : repeats[i] = 1
        /\ SumSeq(repeats) = Len(Pool) + iterations
        /\ GenDone =>
              /\ SumSeq(repeats) = count
              /\ \A i \in 1..Len(Pool) : Occurrences(out, Pool[i]) = repeats[i]
              /\ \A i \in 1..Len(Pool) : Occurrences(out, Pool[i]) >= 1

\* one iteration of the extras loop: exactly one index, below the cap, gains one
C11_OneIncrement ==
    (RepeatBranch /\ pc = "gen_loop" /\ repeats' # repeats) =>
        \E idx \in 1..Len(repeats) :
            /\ repeats[idx] < max_repeats_per_date
            /\ repeats'[idx] = repeats[idx] + 1
            /\ \A i \in 1..Len(repeats) : i # idx => repeats'[i] = repeats[i]
            /\ Len(repeats') = Len(repeats)

\* C11: on the repeat branch the repeat counts start at 1 for every pool
\* index, each loop iteration increments exactly one index whose count is
\* below the cap, 1 <= repeats[i] <= max_repeats_per_date holds in every
\* state of the loop and at its end, the counts sum to count at the end, and
\* every pool date appears at least once in the output.
C11_RepeatAllocation == []C11_RepeatsInvariant /\ [][C11_OneIncrement]_vars

C11_Witness ==
    /\ RepeatBranch
    /\ GenDone
    /\ Len(Pool) >= 3
    /\ max_repeats_per_date = 3
    /\ iterations >= 3
    /\ \E i \in 1..Len(repeats) : repeats[i] = 3
    /\ \E i \in 1..Len(repeats) : repeats[i] = 1
    /\ SumSeq(repeats) = count

\* C12: once the feasibility check has passed, the "no eligible dates left"
\* error never occurs: whenever the extras loop is about to iterate
\* (extras > 0) some pool index has a repeat count below the cap, the loop
\* counter runs down from count - |pool| to 0, and the loop is left after
\* exactly count - |pool| iterations.
C12_EligibleIndexExists ==
    ValidGen =>
        /\ exc # "ValueError: no eligible dates left"
        /\ pc = "gen_loop" =>
              /\ extras >= 0
              /\ iterations + extras = count - Len(Pool)
              /\ extras > 0 =>
                    eligible_indices(repeats, max_repeats_per_date) # {}
        /\ (GenDone /\ count > Len(Pool)) =>
              /\ extras = 0
              /\ iterations = count - Len(Pool)

\* the loop is left with every index at the cap
C12_Witness ==
    /\ ValidGen
    /\ GenDone
    /\ Len(Pool) >= 2
    /\ max_repeats_per_date >= 2
    /\ count = max_repeats_per_date * Len(Pool)
    /\ iterations = count - Len(Pool)
    /\ eligible_indices(repeats, max_repeats_per_date) = {}
    /\ exc \notin GenErrors

\* apply_control_numbers has raised its six-digit error
ControlOverflowRaised ==
    /\ ControlValid
    /\ exc = "ValueError: control number exceeded 6 digits"

\* C14: apply_control_numbers with valid inputs raises "Control number
\* exceeded 6 digits" only if the number of some page that is still to be
\* written exceeds 999999 (so a call whose min(total_pages, max_pages)
\* written values all fit completes without that error), and when the error
\* is raised no control-number cell has been modified and saved.
C14_OverflowOnlyForWrittenPage ==
    ControlOverflowRaised =>
        /\ current > SixDigitMax
        /\ page_index + 1 < pages_to_apply
        /\ pc = "done" => disk = Empty

\* the error is raised for the number after the last page, and the cells
\* written before it are saved by the finally block
C14_Divergence ==
    /\ ControlOverflowRaised
    /\ pc = "done"
    /\ start_number = SixDigitMax
    /\ total_pages = 1
    /\ page_index + 1 = pages_to_apply
    /\ disk = SetCell(Empty, control_first_row, control_col, SixDigitMax)

ExcelOps == {"apply_dates", "apply_control", "invoice_numbers", "products"}

\* no run of a spreadsheet-writing operation ends with the application or
\* the workbook still open
C13_ClosedAtExit ==
    (op \in ExcelOps /\ pc = "done") => (excel # "running" /\ wb # "open")

\* the application has been started by a spreadsheet-writing operation
C13_Started == op \in ExcelOps /\ excel = "running"

\* the workbook, if it was opened, is closed and the application has quit
C13_Released == excel = "quit" /\ wb # "open" /\ pc = "done"

MainCompleted ==
    /\ caller = "main"
    /\ op = "main"
    /\ pc = "done"
    /\ exc = ""
    /\ num_items >= 1

PageRange == 0..compute_total_pages(num_items, ITEMS_PER_PAGE)

\* the pages that hold a product line in the saved file
PagesWithProducts ==
    {p \in PageRange :
        \E i \in 0..(num_items - 1) :
            /\ i \div items_per_page = p
            /\ <<item_row(i), start_col + COL_DESC>> \in DOMAIN disk}

\* the pages whose invoice number start + page index is in the saved file
PagesWithNumber ==
    {p \in PageRange :
        /\ <<number_row(p), number_col>> \in DOMAIN disk
        /\ disk[<<number_row(p), number_col>>] = invoice_start + p}

PagesWithControl == {p \in PageRange : ControlCell(p) \in DOMAIN disk}

PagesWithDates ==
    {p \in PageRange :
        /\ <<invoice_row(p), invoice_col>> \in DOMAIN disk
        /\ <<invoice_row(p) + expiration_row_offset, invoice_col>>
              \in DOMAIN disk}

\* C15: after main completes without error for a non-empty product list, the
\* pages that hold product lines (0 .. ceil(n/9) - 1) are exactly the pages
\* that received an invoice number, a control number and an invoice and
\* expiration date; no page with products is left without numbers or dates.
C15_ProductPagesAreNumbered ==
    MainCompleted =>
        /\ PagesWithProducts =
              0..(compute_total_pages(num_items, ITEMS_PER_PAGE) - 1)
        /\ PagesWithNumber = PagesWithProducts
        /\ PagesWithControl = PagesWithProducts
        /\ PagesWithDates = PagesWithProducts

\* main has completed with a page of products that has no number and no date
C15_Divergence ==
    /\ MainCompleted
    /\ total_pages = max_pages + 1
    /\ max_pages \in PagesWithProducts
    /\ max_pages \notin PagesWithNumber
    /\ max_pages \notin PagesWithControl
    /\ max_pages \notin PagesWithDates

\* below the cap the claim's case happens: every page has everything
C15_WithinCap ==
    (MainCompleted /\ total_pages <= max_pages) =>
        /\ PagesWithProducts = 0..(total_pages - 1)
        /\ PagesWithNumber = PagesWithProducts
        /\ PagesWithControl = PagesWithProducts
        /\ PagesWithDates = PagesWithProducts
====
